---- MODULE Spec2Model ----
(***************************************************************************)
(* Model of core/jni/android_os_seccomp.cpp: construction of the seccomp   *)
(* BPF filter (architecture dispatcher, 64-bit section, jump patch, 32-bit *)
(* section), its installation with prctl(PR_SET_SECCOMP) and the reaction  *)
(* of Seccomp_setPolicy to failure.  The filter `f' is a sequence of       *)
(* sock_filter records; C++ index i is element i+1 of the sequence.        *)
(***************************************************************************)
EXTENDS Integers, Sequences, FiniteSets, TLC

(***************************************************************************)
(* Values of <linux/filter.h>, <linux/seccomp.h>, <linux/audit.h>.         *)
(***************************************************************************)
BPF_LD_W_ABS == 32
    \* BPF_LD|BPF_W|BPF_ABS = 0x00|0x00|0x20

BPF_JMP_JEQ_K == 21
    \* BPF_JMP|BPF_JEQ|BPF_K = 0x05|0x10|0x00

BPF_JMP_JGE_K == 53
    \* BPF_JMP|BPF_JGE|BPF_K = 0x05|0x30|0x00 (used by the generated tables)

BPF_RET_K == 6
    \* BPF_RET|BPF_K = 0x06|0x00

SECCOMP_RET_KILL == 0

SECCOMP_RET_TRAP == 196608
    \* 0x00030000

SECCOMP_RET_ALLOW == 2147418112
    \* 0x7fff0000

syscall_nr == 0
    \* offsetof(struct seccomp_data, nr)

arch_nr == 4
    \* offsetof(struct seccomp_data, arch)

AUDIT_ARCH_ARM == 1073741864
    \* 0x40000028

AUDIT_ARCH_AARCH64 == -1073741641
    \* 0xC00000B7, written as the signed reading of the same 32-bit word;
    \* the filter only tests architecture words for equality.

AUDIT_ARCH_X86_64 == -1073741762
    \* 0xC000003E, an architecture word the dispatcher does not recognise

(***************************************************************************)
(* sock_filter constructors.                                               *)
(***************************************************************************)
BPF_STMT(code, k) == [code |-> code, jt |-> 0, jf |-> 0, k |-> k]

BPF_JUMP(code, k, jt, jf) == [code |-> code, jt |-> jt, jf |-> jf, k |-> k]

\* C++ f[i]
At(f, i) == f[i + 1]

\* __u8 conversion of a size_t
U8(x) == x % 256

\* conversion of an int to the bool return type of set_seccomp_filter
BoolOfInt(x) == x # 0

(***************************************************************************)
(* Emitters.                                                               *)
(***************************************************************************)
Kill(f) == Append(f, BPF_STMT(BPF_RET_K, SECCOMP_RET_KILL))

Trap_allowing(f) == Append(f, BPF_STMT(BPF_RET_K, SECCOMP_RET_ALLOW))

Trap(f) == Append(f, BPF_STMT(BPF_RET_K, SECCOMP_RET_TRAP))

Allow(f) == Append(f, BPF_STMT(BPF_RET_K, SECCOMP_RET_ALLOW))

AllowSyscall_far(f, num) ==
    Allow(Append(f, BPF_JUMP(BPF_JMP_JEQ_K, num, 0, 2)))

AllowSyscall_swapped(f, num) ==
    Allow(Append(f, BPF_JUMP(BPF_JMP_JEQ_K, num, 1, 0)))

AllowSyscall_narrow(f, num) ==
    Allow(Append(f, BPF_JUMP(BPF_JMP_JEQ_K, U8(num), 0, 1)))

AllowSyscall(f, num) ==
    Allow(Append(f, BPF_JUMP(BPF_JMP_JEQ_K, num, 0, 1)))

ExamineSyscall_arch(f) == Append(f, BPF_STMT(BPF_LD_W_ABS, arch_nr))

ExamineSyscall(f) == Append(f, BPF_STMT(BPF_LD_W_ABS, syscall_nr))

\* size_t jump_length = f.size() - offset - 1
JumpLength(offset, f) == Len(f) - offset - 1

\* the test `u8_jump_length != jump_length' of SetValidateArchitectureJumpTarget
JumpTooLong_offbyone(offset, f) == JumpLength(offset, f) > 256

JumpTooLong(offset, f) == U8(JumpLength(offset, f)) # JumpLength(offset, f)

\* return value of SetValidateArchitectureJumpTarget
SetValidateArchitectureJumpTargetResult(offset, f) ==
    IF JumpTooLong(offset, f) THEN -1 ELSE 0

\* the filter as SetValidateArchitectureJumpTarget leaves it
SetValidateArchitectureJumpTarget_unpatched(offset, f) == f

SetValidateArchitectureJumpTarget_short(offset, f) ==
    IF JumpTooLong(offset, f)
    THEN f
    ELSE [f EXCEPT ![offset + 1] =
            BPF_JUMP(BPF_JMP_JEQ_K, AUDIT_ARCH_ARM,
                     U8(JumpLength(offset, f)) - 1, 0)]

SetValidateArchitectureJumpTarget_unchecked(offset, f) ==
    [f EXCEPT ![offset + 1] =
        BPF_JUMP(BPF_JMP_JEQ_K, AUDIT_ARCH_ARM, U8(JumpLength(offset, f)), 0)]

SetValidateArchitectureJumpTarget(offset, f) ==
    IF JumpTooLong(offset, f)
    THEN f
    ELSE [f EXCEPT ![offset + 1] =
            BPF_JUMP(BPF_JMP_JEQ_K, AUDIT_ARCH_ARM,
                     U8(JumpLength(offset, f)), 0)]

\* the four instructions of ValidateArchitectureAndJumpIfNeeded
ValidateArchitecture_fallthrough(f) ==
    Allow(Append(Append(Append(f,
        BPF_STMT(BPF_LD_W_ABS, arch_nr)),
        BPF_JUMP(BPF_JMP_JEQ_K, AUDIT_ARCH_AARCH64, 2, 0)),
        BPF_JUMP(BPF_JMP_JEQ_K, AUDIT_ARCH_ARM, 1, 0)))

ValidateArchitecture(f) ==
    Trap(Append(Append(Append(f,
        BPF_STMT(BPF_LD_W_ABS, arch_nr)),
        BPF_JUMP(BPF_JMP_JEQ_K, AUDIT_ARCH_AARCH64, 2, 0)),
        BPF_JUMP(BPF_JMP_JEQ_K, AUDIT_ARCH_ARM, 1, 0)))

\* its return value, f.size() - 2 of the extended filter
ValidateArchitectureOffset_last(f) == Len(f) - 1

ValidateArchitectureOffset(f) == Len(f) - 2

(***************************************************************************)
(* The explicit allow lists of set_seccomp_filter, in call order.          *)
(***************************************************************************)
Allow64 == <<41, 31, 30, 178, 98, 220, 139, 240, 128, 278, 241, 130, 128, 267>>

Allow32 == <<120, 240, 119, 173, 363, 224, 383, 384, 190, 238, 0, 42, 364,
             33, 195, 5, 141, 217, 351, 252, 85, 250, 8, 10, 196>>

Range(s) == {s[i] : i \in 1..Len(s)}

(***************************************************************************)
(* The generated tables arm64_filter / arm_filter of seccomp_policy.h are  *)
(* input data.  A table is a short rule fragment followed by filler        *)
(* instructions; its jumps stay inside the table or reach the instruction  *)
(* right after it.                                                         *)
(***************************************************************************)
MaxCore == 2
    \* longest rule fragment of a generated table

PadSizes == {0, 223, 224, 225, 481}
    \* filler lengths: jump lengths around 31, 255, 256 and 512

TableInstructions ==
    { BPF_JUMP(BPF_JMP_JEQ_K, 4, 0, 1),
      BPF_JUMP(BPF_JMP_JEQ_K, 98, 0, 1),
      BPF_JUMP(BPF_JMP_JGE_K, 98, 1, 0),
      BPF_STMT(BPF_RET_K, SECCOMP_RET_ALLOW) }

\* a jump of table t never lands beyond the instruction following t
WellFormedTable(t) ==
    \A i \in 1..Len(t) :
        t[i].code \in {BPF_JMP_JEQ_K, BPF_JMP_JGE_K} =>
            /\ i + t[i].jt <= Len(t)
            /\ i + t[i].jf <= Len(t)

CoreTables ==
    { t \in UNION { [1..n -> TableInstructions] : n \in 0..MaxCore } :
        WellFormedTable(t) }

Min(a, b) == IF a < b THEN a ELSE b

\* n filler instructions: each is a compare that jumps, as far as its 8-bit
\* offsets reach, towards the instruction following the table
Padding(n) ==
    [i \in 1..n |-> BPF_JUMP(BPF_JMP_JGE_K, 0, Min(255, n - i), Min(255, n - i))]

Arm64Tables == { c \o Padding(n) : c \in CoreTables, n \in PadSizes }

ArmTables == CoreTables

(***************************************************************************)
(* Evaluation of a filter on a struct seccomp_data (classic BPF): the      *)
(* result is the value returned and the C++ indices executed, in order.    *)
(***************************************************************************)
RanOffEnd == -1
    \* marks an evaluation that ran past the last instruction

Field(data, off) == IF off = arch_nr THEN data.arch ELSE data.nr

RECURSIVE Run(_, _, _, _, _)
Run(prog, data, ip, A, trace) ==
    IF ip >= Len(prog) \/ ip < 0
    THEN [ret |-> RanOffEnd, trace |-> trace]
    ELSE LET ins == At(prog, ip)
             tr  == Append(trace, ip)
         IN  CASE ins.code = BPF_LD_W_ABS ->
                    Run(prog, data, ip + 1, Field(data, ins.k), tr)
               [] ins.code = BPF_JMP_JEQ_K ->
                    Run(prog, data,
                        ip + 1 + (IF A = ins.k THEN ins.jt ELSE ins.jf), A, tr)
               [] ins.code = BPF_JMP_JGE_K ->
                    Run(prog, data,
                        ip + 1 + (IF A >= ins.k THEN ins.jt ELSE ins.jf), A, tr)
               [] OTHER -> [ret |-> ins.k, trace |-> tr]

Evaluate(prog, data) == Run(prog, data, 0, 0, <<>>)

\* a generated table on its own allows nr: it returns Allow with nr loaded
RECURSIVE TableRun(_, _, _)
TableRun(t, nr, ip) ==
    IF ip > Len(t) THEN FALSE
    ELSE LET ins == t[ip]
         IN  CASE ins.code = BPF_JMP_JEQ_K ->
                    TableRun(t, nr, ip + 1 + (IF nr = ins.k THEN ins.jt ELSE ins.jf))
               [] ins.code = BPF_JMP_JGE_K ->
                    TableRun(t, nr, ip + 1 + (IF nr >= ins.k THEN ins.jt ELSE ins.jf))
               [] OTHER -> ins.k = SECCOMP_RET_ALLOW

TableAllows(t, nr) == TableRun(t, nr, 1)

(***************************************************************************)
(* State of one call of Seccomp_setPolicy.                                 *)
(***************************************************************************)
VARIABLES
    arm64_filter,            \* generated table of seccomp_policy.h
    arm_filter,              \* generated table of seccomp_policy.h
    f,                       \* the filter under construction
    offset_to_32bit_filter,  \* local of set_seccomp_filter
    next_entry,              \* position in the list of AllowSyscall calls
    pc,                      \* statement about to run
    patch_rc,                \* <<r>>: SetValidateArchitectureJumpTarget returned r
    fprog_len,               \* sock_fprog.len handed to prctl
    prctl_calls,             \* number of prctl(PR_SET_SECCOMP) calls issued
    prctl_rc,                \* <<r>>: prctl returned r
    kernel_filter,           \* the filter the kernel holds (<<>>: none)
    result,                  \* <<b>>: set_seccomp_filter returned b
    exit_status,             \* argument of exit()
    seccomp_data,            \* the last system call the kernel filtered
    verdict,                 \* its evaluation: value returned, indices executed
    first_build,             \* <<b>>: what an earlier call in this process built
    size_run                 \* the call followed by the size of f alone

vars == <<arm64_filter, arm_filter, f, offset_to_32bit_filter, next_entry, pc,
          patch_rc, fprog_len, prctl_calls, prctl_rc, kernel_filter, result,
          exit_status, seccomp_data, verdict, first_build, size_run>>

tables == <<arm64_filter, arm_filter>>

kernel == <<fprog_len, prctl_calls, prctl_rc, kernel_filter>>

probe == <<seccomp_data, verdict>>

Archs == {AUDIT_ARCH_AARCH64, AUDIT_ARCH_ARM, AUDIT_ARCH_X86_64}

SyscallNrs == Range(Allow64) \cup Range(Allow32) \cup {4, 1, 97, 99, 400}

\* no call is being followed by size
NoSizeRun ==
    [pc |-> "off", n64 |-> 0, n32 |-> 0, size |-> 0, offset |-> 0, next |-> 1,
     rc |-> <<>>, len |-> 0, calls |-> 0]

Init ==
    /\ arm64_filter \in Arm64Tables
    /\ arm_filter \in ArmTables
    /\ f = <<>>
    /\ offset_to_32bit_filter = 0
    /\ next_entry = 1
    /\ pc = "dispatch"
    /\ patch_rc = <<>>
    /\ fprog_len = 0
    /\ prctl_calls = 0
    /\ prctl_rc = <<>>
    /\ kernel_filter = <<>>
    /\ result = <<>>
    /\ exit_status = 0
    /\ seccomp_data = [arch |-> 0, nr |-> 0]
    /\ verdict = [ret |-> RanOffEnd, trace |-> <<>>]
    /\ first_build = <<>>
    /\ size_run = NoSizeRun

\* the filter has been evaluated on seccomp_data
Filtered == pc = "filtered"

(***************************************************************************)
(* set_seccomp_filter, statement by statement.                             *)
(***************************************************************************)
ValidateArchitectureAndJumpIfNeeded ==
    /\ pc = "dispatch"
    /\ f' = ValidateArchitecture(f)
    /\ offset_to_32bit_filter' = ValidateArchitectureOffset(f')
    /\ pc' = "examine64"
    /\ UNCHANGED <<tables, first_build, size_run, next_entry, patch_rc, kernel, result, exit_status, probe>>

ExamineSyscall64 ==
    /\ pc = "examine64"
    /\ f' = ExamineSyscall(f)
    /\ pc' = "copy64"
    /\ UNCHANGED <<tables, first_build, size_run, offset_to_32bit_filter, next_entry, patch_rc, kernel,
                   result, exit_status, probe>>

\* for (i = 0; i < arm64_filter_size; ++i) f.push_back(arm64_filter[i])
CopyArm64Filter ==
    /\ pc = "copy64"
    /\ f' = f \o arm64_filter
    /\ next_entry' = 1
    /\ pc' = "allow64"
    /\ UNCHANGED <<tables, first_build, size_run, offset_to_32bit_filter, patch_rc, kernel, result,
                   exit_status, probe>>

AllowSyscall64 ==
    /\ pc = "allow64"
    /\ f' = AllowSyscall(f, Allow64[next_entry])
    /\ next_entry' = next_entry + 1
    /\ pc' = IF next_entry = Len(Allow64) THEN "trap64" ELSE "allow64"
    /\ UNCHANGED <<tables, first_build, size_run, offset_to_32bit_filter, patch_rc, kernel, result,
                   exit_status, probe>>

Trap64 ==
    /\ pc = "trap64"
    /\ f' = Trap(f)
    /\ pc' = "patch"
    /\ UNCHANGED <<tables, first_build, size_run, offset_to_32bit_filter, next_entry, patch_rc, kernel,
                   result, exit_status, probe>>

\* if (SetValidateArchitectureJumpTarget(offset_to_32bit_filter, f) != 0)
\*     return -1;
PatchJumpTarget_continuing ==
    /\ pc = "patch"
    /\ patch_rc' = <<SetValidateArchitectureJumpTargetResult(offset_to_32bit_filter, f)>>
    /\ f' = SetValidateArchitectureJumpTarget(offset_to_32bit_filter, f)
    /\ pc' = "examine32"
    /\ UNCHANGED <<tables, first_build, size_run, offset_to_32bit_filter, next_entry, kernel, result,
                   exit_status, probe>>

PatchJumpTarget ==
    /\ pc = "patch"
    /\ patch_rc' = <<SetValidateArchitectureJumpTargetResult(offset_to_32bit_filter, f)>>
    /\ f' = SetValidateArchitectureJumpTarget(offset_to_32bit_filter, f)
    /\ IF patch_rc'[1] # 0
       THEN /\ result' = <<BoolOfInt(-1)>>
            /\ pc' = "check"
       ELSE /\ result' = result
            /\ pc' = "examine32"
    /\ UNCHANGED <<tables, first_build, size_run, offset_to_32bit_filter, next_entry, kernel,
                   exit_status, probe>>

ExamineSyscall32 ==
    /\ pc = "examine32"
    /\ f' = ExamineSyscall(f)
    /\ pc' = "copy32"
    /\ UNCHANGED <<tables, first_build, size_run, offset_to_32bit_filter, next_entry, patch_rc, kernel,
                   result, exit_status, probe>>

\* for (i = 0; i < arm_filter_size; ++i) f.push_back(arm_filter[i])
CopyArmFilter ==
    /\ pc = "copy32"
    /\ f' = f \o arm_filter
    /\ next_entry' = 1
    /\ pc' = "allow32"
    /\ UNCHANGED <<tables, first_build, size_run, offset_to_32bit_filter, patch_rc, kernel, result,
                   exit_status, probe>>

AllowSyscall32 ==
    /\ pc = "allow32"
    /\ f' = AllowSyscall(f, Allow32[next_entry])
    /\ next_entry' = next_entry + 1
    /\ pc' = IF next_entry = Len(Allow32) THEN "trap32" ELSE "allow32"
    /\ UNCHANGED <<tables, first_build, size_run, offset_to_32bit_filter, patch_rc, kernel, result,
                   exit_status, probe>>

Trap32 ==
    /\ pc = "trap32"
    /\ f' = Trap(f)
    /\ pc' = "install"
    /\ UNCHANGED <<tables, first_build, size_run, offset_to_32bit_filter, next_entry, patch_rc, kernel,
                   result, exit_status, probe>>

(***************************************************************************)
(* install_filter: one prctl call, whose outcome the kernel decides.       *)
(***************************************************************************)
install_filter_retrying ==
    /\ pc = "install"
    /\ \E r \in {0, -1} :
        /\ fprog_len' = Len(f) % 65536
        /\ prctl_calls' = prctl_calls + 1
        /\ prctl_rc' = <<r>>
        /\ IF r < 0
           THEN /\ kernel_filter' = kernel_filter
                /\ result' = result
                /\ pc' = IF prctl_calls = 0 THEN "install" ELSE "check"
           ELSE /\ kernel_filter' = f
                /\ result' = <<TRUE>>
                /\ pc' = "check"
    /\ UNCHANGED <<tables, first_build, size_run, f, offset_to_32bit_filter, next_entry, patch_rc,
                   exit_status, probe>>

install_filter ==
    /\ pc = "install"
    /\ \E r \in {0, -1} :
        /\ fprog_len' = Len(f) % 65536
        /\ prctl_calls' = prctl_calls + 1
        /\ prctl_rc' = <<r>>
        /\ IF r < 0
           THEN /\ kernel_filter' = kernel_filter
                /\ result' = <<FALSE>>
           ELSE /\ kernel_filter' = f
                /\ result' = <<TRUE>>
    /\ pc' = "check"
    /\ UNCHANGED <<tables, first_build, size_run, f, offset_to_32bit_filter, next_entry, patch_rc,
                   exit_status, probe>>

(***************************************************************************)
(* Seccomp_setPolicy: if (!set_seccomp_filter()) exit(1);                  *)
(***************************************************************************)
Seccomp_setPolicy ==
    /\ pc = "check"
    /\ IF ~result[1]
       THEN /\ exit_status' = 1
            /\ pc' = "exited"
       ELSE /\ exit_status' = exit_status
            /\ pc' = "returned"
    /\ UNCHANGED <<tables, first_build, size_run, f, offset_to_32bit_filter, next_entry, patch_rc,
                   kernel, result, probe>>

(***************************************************************************)
(* After the call has returned, the kernel runs the installed filter on    *)
(* every system call of the process: the call is entered with its          *)
(* seccomp_data, then the filter is evaluated on it.                       *)
(***************************************************************************)
NoVerdict == [ret |-> RanOffEnd, trace |-> <<>>]

SyscallEntry ==
    /\ pc = "returned"
    /\ kernel_filter # <<>>
    /\ \E a \in Archs, nr \in SyscallNrs :
        seccomp_data' = [arch |-> a, nr |-> nr]
    /\ pc' = "filtering"
    /\ UNCHANGED <<tables, first_build, size_run, f, offset_to_32bit_filter, next_entry, patch_rc,
                   kernel, result, exit_status, verdict>>

RunFilter ==
    /\ pc = "filtering"
    /\ verdict' = Evaluate(kernel_filter, seccomp_data)
    /\ pc' = "filtered"
    /\ UNCHANGED <<tables, first_build, size_run, f, offset_to_32bit_filter, next_entry, patch_rc,
                   kernel, result, exit_status, seccomp_data>>

\* the kernel has acted on the verdict; the process goes on
SyscallExit ==
    /\ pc = "filtered"
    /\ seccomp_data' = [arch |-> 0, nr |-> 0]
    /\ verdict' = NoVerdict
    /\ pc' = "returned"
    /\ UNCHANGED <<tables, first_build, size_run, f, offset_to_32bit_filter, next_entry, patch_rc,
                   kernel, result, exit_status>>

Next ==
    \/ ValidateArchitectureAndJumpIfNeeded
    \/ ExamineSyscall64
    \/ CopyArm64Filter
    \/ AllowSyscall64
    \/ Trap64
    \/ PatchJumpTarget
    \/ ExamineSyscall32
    \/ CopyArmFilter
    \/ AllowSyscall32
    \/ Trap32
    \/ install_filter
    \/ Seccomp_setPolicy
    \/ SyscallEntry
    \/ RunFilter
    \/ SyscallExit

Spec == Init /\ [][Next]_vars

(***************************************************************************)
(* A second call of Seccomp_setPolicy in the same process: the filter f is *)
(* a local of set_seccomp_filter and starts empty again, the generated     *)
(* tables are the same constants.  What the first call built is kept for   *)
(* comparison.                                                             *)
(***************************************************************************)
SecondCall_static ==
    /\ pc = "returned"
    /\ first_build = <<>>
    /\ first_build' = <<[f |-> f, patch_rc |-> patch_rc]>>
    /\ f' = f
    /\ offset_to_32bit_filter' = 0
    /\ next_entry' = 1
    /\ pc' = "dispatch"
    /\ patch_rc' = <<>>
    /\ fprog_len' = 0
    /\ prctl_calls' = 0
    /\ prctl_rc' = <<>>
    /\ result' = <<>>
    /\ UNCHANGED <<tables, size_run, kernel_filter, exit_status, probe>>

SecondCall ==
    /\ pc = "returned"
    /\ first_build = <<>>
    /\ first_build' = <<[f |-> f, patch_rc |-> patch_rc]>>
    /\ f' = <<>>
    /\ offset_to_32bit_filter' = 0
    /\ next_entry' = 1
    /\ pc' = "dispatch"
    /\ patch_rc' = <<>>
    /\ fprog_len' = 0
    /\ prctl_calls' = 0
    /\ prctl_rc' = <<>>
    /\ result' = <<>>
    /\ UNCHANGED <<tables, size_run, kernel_filter, exit_status, probe>>

(***************************************************************************)
(* The same call followed by f.size() alone, for generated tables of any   *)
(* size: every statement of set_seccomp_filter changes the size by the     *)
(* number of instructions its emitter appends, the patch tests the size,   *)
(* and install_filter converts it to the unsigned short sock_fprog.len.    *)
(* Nothing in the build bounds the 32-bit section: the patch test bounds   *)
(* the 64-bit section only.                                                *)
(***************************************************************************)
Arm64FilterSizes == {0, 1, 224, 225}

ArmFilterSizes == {0, 1, 65449, 65450}
    \* with the 86 instructions of the core: programs of up to 65537

\* (unsigned short) f.size()
U16(x) == x % 65536

\* number of instructions an emitter appends
Emitted(g) == Len(g)

\* the variables of the call followed instruction by instruction
call_vars ==
    <<arm64_filter, arm_filter, f, offset_to_32bit_filter, next_entry, pc,
      patch_rc, fprog_len, prctl_calls, prctl_rc, kernel_filter, result,
      exit_status, seccomp_data, verdict, first_build>>

InitSize ==
    /\ arm64_filter = <<>>
    /\ arm_filter = <<>>
    /\ f = <<>>
    /\ offset_to_32bit_filter = 0
    /\ next_entry = 1
    /\ pc = "dispatch"
    /\ patch_rc = <<>>
    /\ fprog_len = 0
    /\ prctl_calls = 0
    /\ prctl_rc = <<>>
    /\ kernel_filter = <<>>
    /\ result = <<>>
    /\ exit_status = 0
    /\ seccomp_data = [arch |-> 0, nr |-> 0]
    /\ verdict = [ret |-> RanOffEnd, trace |-> <<>>]
    /\ first_build = <<>>
    /\ \E a \in Arm64FilterSizes, b \in ArmFilterSizes :
          size_run = [NoSizeRun EXCEPT !.pc = "dispatch", !.n64 = a, !.n32 = b]

SizeValidateArchitecture ==
    /\ size_run.pc = "dispatch"
    /\ LET g == ValidateArchitecture(<<>>)
       IN  size_run' = [size_run EXCEPT !.size = @ + Emitted(g),
                                        !.offset = ValidateArchitectureOffset(g),
                                        !.pc = "examine64"]
    /\ UNCHANGED call_vars

SizeExamineSyscall64 ==
    /\ size_run.pc = "examine64"
    /\ size_run' = [size_run EXCEPT !.size = @ + Emitted(ExamineSyscall(<<>>)),
                                    !.pc = "copy64"]
    /\ UNCHANGED call_vars

SizeCopyArm64Filter ==
    /\ size_run.pc = "copy64"
    /\ size_run' = [size_run EXCEPT !.size = @ + size_run.n64,
                                    !.next = 1,
                                    !.pc = "allow64"]
    /\ UNCHANGED call_vars

SizeAllowSyscall64 ==
    /\ size_run.pc = "allow64"
    /\ size_run' =
          [size_run EXCEPT
              !.size = @ + Emitted(AllowSyscall(<<>>, Allow64[size_run.next])),
              !.next = @ + 1,
              !.pc = IF size_run.next = Len(Allow64) THEN "trap64" ELSE "allow64"]
    /\ UNCHANGED call_vars

SizeTrap64 ==
    /\ size_run.pc = "trap64"
    /\ size_run' = [size_run EXCEPT !.size = @ + Emitted(Trap(<<>>)),
                                    !.pc = "patch"]
    /\ UNCHANGED call_vars

\* the patch reads f.size() only; a filter of that size stands for f
SizePatchJumpTarget ==
    /\ size_run.pc = "patch"
    /\ LET r == SetValidateArchitectureJumpTargetResult(size_run.offset,
                                                        Padding(size_run.size))
       IN  size_run' = [size_run EXCEPT
                          !.rc = <<r>>,
                          !.pc = IF r # 0 THEN "check" ELSE "examine32"]
    /\ UNCHANGED call_vars

SizeExamineSyscall32 ==
    /\ size_run.pc = "examine32"
    /\ size_run' = [size_run EXCEPT !.size = @ + Emitted(ExamineSyscall(<<>>)),
                                    !.pc = "copy32"]
    /\ UNCHANGED call_vars

SizeCopyArmFilter ==
    /\ size_run.pc = "copy32"
    /\ size_run' = [size_run EXCEPT !.size = @ + size_run.n32,
                                    !.next = 1,
                                    !.pc = "allow32"]
    /\ UNCHANGED call_vars

SizeAllowSyscall32 ==
    /\ size_run.pc = "allow32"
    /\ size_run' =
          [size_run EXCEPT
              !.size = @ + Emitted(AllowSyscall(<<>>, Allow32[size_run.next])),
              !.next = @ + 1,
              !.pc = IF size_run.next = Len(Allow32) THEN "trap32" ELSE "allow32"]
    /\ UNCHANGED call_vars

SizeTrap32 ==
    /\ size_run.pc = "trap32"
    /\ size_run' = [size_run EXCEPT !.size = @ + Emitted(Trap(<<>>)),
                                    !.pc = "install"]
    /\ UNCHANGED call_vars

\* struct sock_fprog prog = { (unsigned short) f.size(), ... }; prctl(...)
SizeInstallFilter ==
    /\ size_run.pc = "install"
    /\ size_run' = [size_run EXCEPT !.len = U16(size_run.size),
                                    !.calls = @ + 1,
                                    !.pc = "check"]
    /\ UNCHANGED call_vars

NextSize ==
    \/ SizeValidateArchitecture
    \/ SizeExamineSyscall64
    \/ SizeCopyArm64Filter
    \/ SizeAllowSyscall64
    \/ SizeTrap64
    \/ SizePatchJumpTarget
    \/ SizeExamineSyscall32
    \/ SizeCopyArmFilter
    \/ SizeAllowSyscall32
    \/ SizeTrap32
    \/ SizeInstallFilter

SpecSize == InitSize /\ [][NextSize]_vars

NextTwice ==
    \/ Next
    \/ SecondCall

SpecTwice == Init /\ [][NextTwice]_vars

TypeOK ==
    /\ pc \in {"dispatch", "examine64", "copy64", "allow64", "trap64", "patch",
               "examine32", "copy32", "allow32", "trap32", "install", "check",
               "returned", "exited", "filtering", "filtered"}
    /\ prctl_calls \in Nat
    /\ Len(result) <= 1

(***************************************************************************)
(* Layout of the assembled filter, from the order of the statements of     *)
(* set_seccomp_filter.                                                     *)
(***************************************************************************)
\* index of the 64-bit section's first instruction: the dispatcher has four
Section64Start == 4

\* index of the 32-bit section's first instruction
Section32Start ==
    Section64Start + 1 + Len(arm64_filter) + 2 * Len(Allow64) + 1

InSection64(i) == Section64Start <= i /\ i < Section32Start

InSection32(i) == Section32Start <= i

\* the instruction at the index ValidateArchitectureAndJumpIfNeeded returned
Placeholder == At(f, offset_to_32bit_filter)

\* nr is allowed under an architecture: by its explicit list or by its table
Allowed64(nr) == nr \in Range(Allow64) \/ TableAllows(arm64_filter, nr)

Allowed32(nr) == nr \in Range(Allow32) \/ TableAllows(arm_filter, nr)

(***************************************************************************)
(* C1. On any failure of the install-policy sequence the process exits:    *)
(* Seccomp_setPolicy never returns control to its caller without the       *)
(* filter having been installed.                                           *)
(***************************************************************************)
C1_NoReturnWithoutFilter ==
    pc \in {"returned", "filtering", "filtered"} => kernel_filter # <<>>

(***************************************************************************)
(* C2. If the jump patch fails, construction is aborted and prctl is never *)
(* called: a prctl call is always preceded by a successful patch.          *)
(***************************************************************************)
C2_NoInstallAfterFailedPatch ==
    /\ prctl_calls > 0 => patch_rc = <<0>>
    /\ patch_rc = <<-1>> =>
        /\ prctl_calls = 0
        /\ kernel_filter = <<>>
        /\ Len(f) = Section32Start
        /\ pc \in {"check", "returned", "exited"}

C2_Witness ==
    /\ patch_rc = <<-1>>
    /\ pc \in {"returned", "exited"}
    /\ prctl_calls = 0

(***************************************************************************)
(* C3. prctl is called at most once per call of Seccomp_setPolicy; when it *)
(* fails it is not retried, install_filter returns false and the process   *)
(* exits with status 1.                                                    *)
(***************************************************************************)
C3_InstallFailureIsFatal ==
    /\ prctl_calls <= 1
    /\ prctl_rc = <<-1>> =>
        /\ result = <<FALSE>>
        /\ kernel_filter = <<>>
        /\ pc \in {"check", "exited"}
        /\ pc = "exited" => exit_status = 1

C3_Witness ==
    /\ prctl_rc = <<-1>>
    /\ prctl_calls = 1
    /\ pc = "exited"
    /\ exit_status = 1

(***************************************************************************)
(* C4. Default-deny: a syscall number that is neither in the explicit      *)
(* allow list of the input's architecture nor allowed by that              *)
(* architecture's generated table evaluates to Trap.                       *)
(***************************************************************************)
C4_DefaultDeny ==
    Filtered =>
        /\ (seccomp_data.arch = AUDIT_ARCH_AARCH64 /\ ~Allowed64(seccomp_data.nr))
              => verdict.ret = SECCOMP_RET_TRAP
        /\ (seccomp_data.arch = AUDIT_ARCH_ARM /\ ~Allowed32(seccomp_data.nr))
              => verdict.ret = SECCOMP_RET_TRAP

C4_Witness ==
    /\ Filtered
    /\ seccomp_data = [arch |-> AUDIT_ARCH_AARCH64, nr |-> 1]
    /\ ~Allowed64(1)
    /\ arm64_filter # <<>>
    /\ verdict.ret = SECCOMP_RET_TRAP

(***************************************************************************)
(* C5. Architecture isolation: an input of architecture A whose syscall    *)
(* number is allowed only under the other architecture is not allowed.     *)
(***************************************************************************)
C5_ArchitectureIsolation ==
    Filtered =>
        /\ (/\ seccomp_data.arch = AUDIT_ARCH_ARM
            /\ Allowed64(seccomp_data.nr)
            /\ ~Allowed32(seccomp_data.nr)) => verdict.ret # SECCOMP_RET_ALLOW
        /\ (/\ seccomp_data.arch = AUDIT_ARCH_AARCH64
            /\ Allowed32(seccomp_data.nr)
            /\ ~Allowed64(seccomp_data.nr)) => verdict.ret # SECCOMP_RET_ALLOW

C5_Witness ==
    /\ Filtered
    /\ seccomp_data = [arch |-> AUDIT_ARCH_ARM, nr |-> 98]
    /\ ~Allowed32(98)
    /\ verdict.ret = SECCOMP_RET_TRAP

(***************************************************************************)
(* C6. Allow correctness: every id passed to AllowSyscall in an            *)
(* architecture's section evaluates to Allow under that architecture.      *)
(***************************************************************************)
C6_AllowCorrectness ==
    Filtered =>
        /\ (seccomp_data.arch = AUDIT_ARCH_AARCH64 /\ seccomp_data.nr \in Range(Allow64))
              => verdict.ret = SECCOMP_RET_ALLOW
        /\ (seccomp_data.arch = AUDIT_ARCH_ARM /\ seccomp_data.nr \in Range(Allow32))
              => verdict.ret = SECCOMP_RET_ALLOW

\* the last 64-bit entry, an id above 255, behind a table that allows nothing
C6_Witness ==
    /\ Filtered
    /\ seccomp_data = [arch |-> AUDIT_ARCH_AARCH64, nr |-> 267]
    /\ ~TableAllows(arm64_filter, 267)
    /\ Len(arm64_filter) > 200
    /\ verdict.ret = SECCOMP_RET_ALLOW

(***************************************************************************)
(* C7. Dispatcher defaulting: an input whose architecture is neither       *)
(* AUDIT_ARCH_AARCH64 nor AUDIT_ARCH_ARM evaluates to Trap and executes    *)
(* no instruction of either section.                                       *)
(***************************************************************************)
C7_DispatcherDefault ==
    (Filtered /\ seccomp_data.arch \notin {AUDIT_ARCH_AARCH64, AUDIT_ARCH_ARM}) =>
        /\ verdict.ret = SECCOMP_RET_TRAP
        /\ \A j \in 1..Len(verdict.trace) : verdict.trace[j] < Section64Start

C7_Witness ==
    /\ Filtered
    /\ seccomp_data = [arch |-> AUDIT_ARCH_X86_64, nr |-> 98]
    /\ verdict = [ret |-> SECCOMP_RET_TRAP, trace |-> <<0, 1, 2, 3>>]

(***************************************************************************)
(* C8. Offset bound: the patch computes distance = f.size() - offset - 1   *)
(* and succeeds exactly when distance <= 255.                              *)
(***************************************************************************)
C8_OffsetBound ==
    [][pc = "patch" =>
        LET distance == Len(f) - offset_to_32bit_filter - 1
        IN  /\ patch_rc' \in {<<0>>, <<-1>>}
            /\ patch_rc' = <<0>> <=> distance <= 255]_vars

\* a distance of 512, whose low 8 bits are 0, has been rejected
C8_Witness ==
    /\ patch_rc = <<-1>>
    /\ Len(f) - offset_to_32bit_filter - 1 = 512

(***************************************************************************)
(* C9. After a successful patch the placeholder is a compare-equal with    *)
(* AUDIT_ARCH_ARM and false-skip 0 whose true branch targets the index of  *)
(* the instruction the 32-bit section appends first, its load of the       *)
(* syscall number.                                                         *)
(***************************************************************************)
C9_PatchedJumpTarget ==
    [][pc = "examine32" =>
        LET target == offset_to_32bit_filter + 1 + Placeholder.jt
        IN  /\ Placeholder.code = BPF_JMP_JEQ_K
            /\ Placeholder.k = AUDIT_ARCH_ARM
            /\ Placeholder.jf = 0
            /\ target = Len(f)
            /\ Len(f') = Len(f) + 1
            /\ At(f', target) = BPF_STMT(BPF_LD_W_ABS, syscall_nr)]_vars

\* the longest jump that fits has been patched in and the load appended
C9_Witness ==
    /\ pc = "copy32"
    /\ patch_rc = <<0>>
    /\ Placeholder.jt = 255
    /\ At(f, offset_to_32bit_filter + 1 + Placeholder.jt)
          = BPF_STMT(BPF_LD_W_ABS, syscall_nr)

(***************************************************************************)
(* C10. In the installed filter an instruction of the 64-bit section is    *)
(* executed only on AUDIT_ARCH_AARCH64 inputs and one of the 32-bit        *)
(* section only on AUDIT_ARCH_ARM inputs, in both cases after the          *)
(* dispatcher's load of the architecture and its compare.                  *)
(***************************************************************************)
C10_SectionOnlyAfterMatch ==
    Filtered =>
        \A j \in 1..Len(verdict.trace) :
            /\ InSection64(verdict.trace[j]) =>
                /\ seccomp_data.arch = AUDIT_ARCH_AARCH64
                /\ j > 2
                /\ verdict.trace[1] = 0
                /\ verdict.trace[2] = 1
            /\ InSection32(verdict.trace[j]) =>
                /\ seccomp_data.arch = AUDIT_ARCH_ARM
                /\ j > 3
                /\ verdict.trace[1] = 0
                /\ verdict.trace[2] = 1
                /\ verdict.trace[3] = offset_to_32bit_filter

\* a 32-bit input has run the 32-bit section, beyond a 64-bit section with
\* a table of its own, down to the final Trap
C10_Witness ==
    /\ Filtered
    /\ seccomp_data.arch = AUDIT_ARCH_ARM
    /\ arm64_filter # <<>>
    /\ verdict.trace[Len(verdict.trace)] = Len(kernel_filter) - 1
    /\ \A j \in 1..Len(verdict.trace) : ~InSection64(verdict.trace[j])

(***************************************************************************)
(* The finished program: both sections have been appended and the program *)
(* is about to be handed to install_filter, which does not change it.      *)
(***************************************************************************)
Finished == pc = "install"

\* index of the first explicit entry of each section, after the table
Entries64Start == Section64Start + 1 + Len(arm64_filter)

Entries32Start == Section32Start + 1 + Len(arm_filter)

\* indices of the instructions the generated tables supplied
InTable(i) ==
    \/ Section64Start + 1 <= i /\ i < Entries64Start
    \/ Section32Start + 1 <= i /\ i < Entries32Start

\* indices control can move to from instruction i of program prog
Successors(prog, i) ==
    LET ins == At(prog, i)
    IN  IF ins.code \in {BPF_JMP_JEQ_K, BPF_JMP_JGE_K}
        THEN {i + 1 + ins.jt, i + 1 + ins.jf}
        ELSE IF ins.code = BPF_RET_K THEN {} ELSE {i + 1}

IsAllow(ins) == ins = BPF_STMT(BPF_RET_K, SECCOMP_RET_ALLOW)

(***************************************************************************)
(* C11. In the finished program each section ends with a return that is    *)
(* not Allow (Trap); every Allow outside the generated tables directly     *)
(* follows a compare-equal with true-skip 0 and false-skip 1, and control  *)
(* reaches it only from that compare, by its true branch.                  *)
(***************************************************************************)
C11_AllowOnlyAfterCompare ==
    Finished =>
        /\ At(f, Section32Start - 1) = BPF_STMT(BPF_RET_K, SECCOMP_RET_TRAP)
        /\ At(f, Len(f) - 1) = BPF_STMT(BPF_RET_K, SECCOMP_RET_TRAP)
        /\ \A i \in 0..(Len(f) - 1) :
              (IsAllow(At(f, i)) /\ ~InTable(i)) =>
                  /\ i > 0
                  /\ At(f, i - 1).code = BPF_JMP_JEQ_K
                  /\ At(f, i - 1).jt = 0
                  /\ At(f, i - 1).jf = 1
                  /\ \A j \in 0..(Len(f) - 1) :
                        i \in Successors(f, j) => j = i - 1

\* a finished program whose tables both end in an Allow of their own
C11_Witness ==
    /\ Finished
    /\ Len(arm64_filter) > 0
    /\ Len(arm_filter) > 0
    /\ IsAllow(arm_filter[Len(arm_filter)])
    /\ IsAllow(At(f, Len(f) - 2))
    /\ IsAllow(At(f, Section32Start - 2))

(***************************************************************************)
(* C12. Determinism: a second build from the same generated tables and the *)
(* same allow lists yields the same instruction sequence (same length, and *)
(* the same code, jt, jf and k at every index) and the same outcome of the *)
(* patch step as the first.                                                *)
(***************************************************************************)
BuildEnded == Finished \/ (pc = "check" /\ patch_rc = <<-1>>)

SectionShape(table, entries) ==
    <<BPF_STMT(BPF_LD_W_ABS, syscall_nr)>>
    \o table
    \o [i \in 1..(2 * Len(entries)) |->
          IF i % 2 = 1
          THEN BPF_JUMP(BPF_JMP_JEQ_K, entries[(i + 1) \div 2], 0, 1)
          ELSE BPF_STMT(BPF_RET_K, SECCOMP_RET_ALLOW)]
    \o <<BPF_STMT(BPF_RET_K, SECCOMP_RET_TRAP)>>

\* the compare of pair n (n = 1, 2, ...) of a section whose entries start at
\* index first falls through, on mismatch, to the next compare or the Trap
FalseBranchLands(first, entries, n) ==
    LET c == first + 2 * (n - 1)
        target == c + 1 + At(f, c).jf
    IN  /\ target = c + 2
        /\ At(f, target) =
              IF n < Len(entries)
              THEN BPF_JUMP(BPF_JMP_JEQ_K, entries[n + 1], 0, 1)
              ELSE BPF_STMT(BPF_RET_K, SECCOMP_RET_TRAP)

C13_SectionShape ==
    /\ pc = "patch" =>
          SubSeq(f, Section64Start + 1, Len(f)) = SectionShape(arm64_filter, Allow64)
    /\ Finished =>
          /\ SubSeq(f, Section64Start + 1, Section32Start)
                = SectionShape(arm64_filter, Allow64)
          /\ SubSeq(f, Section32Start + 1, Len(f))
                = SectionShape(arm_filter, Allow32)
          /\ \A n \in 1..Len(Allow64) : FalseBranchLands(Entries64Start, Allow64, n)
          /\ \A n \in 1..Len(Allow32) : FalseBranchLands(Entries32Start, Allow32, n)

\* a finished program with a long 64-bit table and a 32-bit table of two
C13_Witness ==
    /\ Finished
    /\ Len(arm64_filter) > 200
    /\ Len(arm_filter) = 2
    /\ Len(f) = Section32Start + 1 + 2 + 2 * Len(Allow32) + 1

(***************************************************************************)
(* C14. The builder is append-only except for the patch: every other step  *)
(* leaves the instructions already emitted unchanged and only lengthens    *)
(* the program; a successful patch changes the instruction at the          *)
(* placeholder index and nothing else, not even the length; a failing      *)
(* patch changes nothing.                                                  *)
(***************************************************************************)
C14_AppendOnlyExceptPatch ==
    [][/\ pc # "patch" =>
            /\ Len(f') >= Len(f)
            /\ SubSeq(f', 1, Len(f)) = f
       /\ pc = "dispatch" => Len(f') = Len(f) + 4
       /\ pc \in {"examine64", "examine32", "trap64", "trap32"} =>
            Len(f') = Len(f) + 1
       /\ pc \in {"allow64", "allow32"} => Len(f') = Len(f) + 2
       /\ pc = "copy64" => Len(f') = Len(f) + Len(arm64_filter)
       /\ pc = "copy32" => Len(f') = Len(f) + Len(arm_filter)
       /\ pc = "patch" =>
            IF patch_rc' = <<0>>
            THEN /\ Len(f') = Len(f)
                 /\ \A i \in 0..(Len(f) - 1) :
                       i # offset_to_32bit_filter => At(f', i) = At(f, i)
                 /\ At(f', offset_to_32bit_filter) # At(f, offset_to_32bit_filter)
            ELSE f' = f]_vars

\* a successful patch has been followed by further appends: the rest of the
\* dispatcher and the 64-bit section are as they were emitted
C14_Witness ==
    /\ pc = "allow32"
    /\ patch_rc = <<0>>
    /\ Placeholder.jt = JumpLength(offset_to_32bit_filter, SubSeq(f, 1, Section32Start))
    /\ SubSeq(f, 1, 2) = SubSeq(ValidateArchitecture(<<>>), 1, 2)
    /\ At(f, 3) = BPF_STMT(BPF_RET_K, SECCOMP_RET_TRAP)
    /\ Len(arm_filter) > 0

(***************************************************************************)
(* C15. The dispatcher emits, in order: the load of the architecture; the  *)
(* compare with AUDIT_ARCH_AARCH64, whose true branch lands on the 64-bit  *)
(* section's load of the syscall number; the compare with AUDIT_ARCH_ARM   *)
(* with true-skip 1 and false-skip 0; a Trap.  The index it returns is     *)
(* that of the AUDIT_ARCH_ARM compare itself, which is the placeholder the *)
(* patch overwrites; the instruction that follows it is the Trap.          *)
(***************************************************************************)
DispatcherEmitted ==
    /\ At(f, 0) = BPF_STMT(BPF_LD_W_ABS, arch_nr)
    /\ At(f, 1).code = BPF_JMP_JEQ_K
    /\ At(f, 1).k = AUDIT_ARCH_AARCH64
    /\ 1 + 1 + At(f, 1).jt = Section64Start
    /\ pc # "examine64" => At(f, Section64Start) = BPF_STMT(BPF_LD_W_ABS, syscall_nr)
    /\ At(f, 2).code = BPF_JMP_JEQ_K
    /\ At(f, 2).k = AUDIT_ARCH_ARM
    /\ At(f, 2).jf = 0
    /\ patch_rc = <<>> => At(f, 2).jt = 1
    /\ At(f, 3) = BPF_STMT(BPF_RET_K, SECCOMP_RET_TRAP)

C15_DispatcherReturnsCompareIndex ==
    pc # "dispatch" =>
        /\ DispatcherEmitted
        /\ offset_to_32bit_filter = 2
        /\ Placeholder.code = BPF_JMP_JEQ_K
        /\ Placeholder.k = AUDIT_ARCH_ARM
        /\ At(f, offset_to_32bit_filter + 1) = BPF_STMT(BPF_RET_K, SECCOMP_RET_TRAP)

\* the dispatcher and the 64-bit load have been emitted, nothing patched yet
C15_Witness ==
    /\ pc = "copy64"
    /\ offset_to_32bit_filter = 2
    /\ Placeholder = BPF_JUMP(BPF_JMP_JEQ_K, AUDIT_ARCH_ARM, 1, 0)
    /\ At(f, Section64Start) = BPF_STMT(BPF_LD_W_ABS, syscall_nr)

\* the claim as stated: the index returned is that of a placeholder jump
\* which follows the AUDIT_ARCH_ARM compare
C15_ReturnsIndexAfterCompare ==
    pc # "dispatch" =>
        /\ DispatcherEmitted
        /\ offset_to_32bit_filter = 2 + 1
        /\ At(f, offset_to_32bit_filter).code = BPF_JMP_JEQ_K

(***************************************************************************)
(* C16. The instruction count handed to prctl equals the length of the     *)
(* assembled program, whatever the size of the generated tables: no        *)
(* program that is built has its length truncated in sock_fprog.len.       *)
(***************************************************************************)
C16_CountIsLength ==
    size_run.calls > 0 => size_run.len = size_run.size

(***************************************************************************)
(* C17. In a program that reaches the installer every jump emitted outside *)
(* the generated tables (the dispatcher's compares, the patched jump, the  *)
(* compares of the allow pairs) targets an index greater than its own and  *)
(* smaller than the program length; the evaluation of the program on any   *)
(* input visits increasing indices, so at most as many as the program has  *)
(* instructions, and ends at a return instruction, never past the last.    *)
(***************************************************************************)
IsJump(ins) == ins.code \in {BPF_JMP_JEQ_K, BPF_JMP_JGE_K}

C17_JumpsForwardAndEvaluationEnds ==
    /\ Finished =>
          \A i \in 0..(Len(f) - 1) :
              (IsJump(At(f, i)) /\ ~InTable(i)) =>
                  \A t \in Successors(f, i) : i < t /\ t < Len(f)
    /\ Filtered =>
          /\ verdict.ret # RanOffEnd
          /\ Len(verdict.trace) >= 1
          /\ Len(verdict.trace) <= Len(kernel_filter)
          /\ \A j \in 1..(Len(verdict.trace) - 1) :
                verdict.trace[j] < verdict.trace[j + 1]
          /\ verdict.trace[Len(verdict.trace)] < Len(kernel_filter)
          /\ At(kernel_filter, verdict.trace[Len(verdict.trace)]).code = BPF_RET_K

\* a 32-bit input has fallen through every compare of the 32-bit section
\* and ended on the last instruction, the final Trap
C17_Witness ==
    /\ Filtered
    /\ seccomp_data = [arch |-> AUDIT_ARCH_ARM, nr |-> 400]
    /\ Len(arm64_filter) > 200
    /\ Len(verdict.trace) >= 3 + 1 + Len(Allow32) + 1
    /\ verdict.trace[Len(verdict.trace)] = Len(kernel_filter) - 1
    /\ verdict.ret = SECCOMP_RET_TRAP

====
